---------------------------- MODULE Spec2Model ----------------------------
(***************************************************************************)
(* Incremental net benefit (INB) of diagnostic testing strategies:         *)
(* the six cost/harm-explicit formulas of utilities/inb_utils.py, the six  *)
(* cost-normalized formulas of utilities/inb_d_b_utils.py, and the sweep   *)
(* and hull assembly of page1/page2 in app.py.                             *)
(*                                                                         *)
(* Numbers are exact rationals n/d in lowest terms, extended with the      *)
(* IEEE values +inf, -inf and NaN that a numpy float64 division by zero    *)
(* produces, and with the ZeroDivisionError a Python float division by     *)
(* zero raises.  Rounding of binary floating point is not modelled.        *)
(***************************************************************************)
EXTENDS Integers, Sequences, FiniteSets, TLC

\* ------------------------------------------------------------------------
\* Bounds of the model
\* ------------------------------------------------------------------------

\* probabilities p and p_Rx are multiples of 1/GridDen
GridDen == 4

\* number of points of the probability sweep (np.linspace(p_min, p_max, 1000))
GridN == 3

\* largest number of strategies picked in the multiselect
MaxSel == 2

\* ------------------------------------------------------------------------
\* Extended rational arithmetic
\* ------------------------------------------------------------------------

Abs(x) == IF x < 0 THEN -x ELSE x

RECURSIVE GCD(_, _)
GCD(a, b) == IF b = 0 THEN a ELSE GCD(b, a % b)

\* a number: k is "fin" (the rational n/d, d > 0, lowest terms), "pinf",
\* "ninf", "nan", or "zde" (a raised ZeroDivisionError, which every later
\* operation passes on); np says the value is a numpy float64 scalar
Val(k, n, d, np) == [k |-> k, n |-> n, d |-> d, np |-> np]

Fin(n, d, np) ==
    LET g == GCD(Abs(n), d)
    IN  IF n = 0 THEN Val("fin", 0, 1, np) ELSE Val("fin", n \div g, d \div g, np)

\* a Python float literal or slider value n/d
Rat(n, d) == Fin(n, d, FALSE)

\* a numpy float64 scalar n/d (an element of np.linspace's array)
NpRat(n, d) == Fin(n, d, TRUE)

Zero == Rat(0, 1)
One == Rat(1, 1)
Two == Rat(2, 1)

Sign(x) == CASE x.k = "pinf" -> 1
             [] x.k = "ninf" -> -1
             [] x.k = "fin" -> (IF x.n > 0 THEN 1 ELSE IF x.n < 0 THEN -1 ELSE 0)
             [] OTHER -> 0

Special(k, np) == Val(k, 0, 1, np)
Inf(s, np) == Special(IF s > 0 THEN "pinf" ELSE "ninf", np)

Neg(x) == CASE x.k = "fin" -> Val("fin", -x.n, x.d, x.np)
            [] x.k = "pinf" -> Special("ninf", x.np)
            [] x.k = "ninf" -> Special("pinf", x.np)
            [] OTHER -> x

Add(x, y) ==
    LET np == x.np \/ y.np
    IN  CASE x.k = "zde" \/ y.k = "zde" -> Special("zde", FALSE)
          [] x.k = "nan" \/ y.k = "nan" -> Special("nan", np)
          [] x.k = "fin" /\ y.k = "fin" -> Fin(x.n * y.d + y.n * x.d, x.d * y.d, np)
          [] x.k = "fin" -> Special(y.k, np)
          [] y.k = "fin" -> Special(x.k, np)
          [] x.k = y.k -> Special(x.k, np)
          [] OTHER -> Special("nan", np)

Sub(x, y) == Add(x, Neg(y))

Mul(x, y) ==
    LET np == x.np \/ y.np
    IN  CASE x.k = "zde" \/ y.k = "zde" -> Special("zde", FALSE)
          [] x.k = "nan" \/ y.k = "nan" -> Special("nan", np)
          [] x.k = "fin" /\ y.k = "fin" -> Fin(x.n * y.n, x.d * y.d, np)
          [] Sign(x) * Sign(y) = 0 -> Special("nan", np)
          [] OTHER -> Inf(Sign(x) * Sign(y), np)

\* x / y for a finite, non-negative divisor (every divisor is 1 - p_Rx):
\* Python floats raise ZeroDivisionError on y = 0; if either operand is a
\* numpy float64, numpy returns inf or nan (with a RuntimeWarning)
Div(x, y) ==
    LET np == x.np \/ y.np
    IN  CASE x.k = "zde" \/ y.k = "zde" -> Special("zde", FALSE)
          [] x.k = "nan" \/ y.k = "nan" -> Special("nan", np)
          [] y.k = "fin" /\ y.n = 0 ->
                IF ~np THEN Special("zde", FALSE)
                ELSE IF Sign(x) = 0 THEN Special("nan", np)
                ELSE Inf(Sign(x), np)
          [] x.k = "fin" /\ y.k = "fin" ->
                IF y.n > 0 THEN Fin(x.n * y.d, x.d * y.n, np)
                ELSE Fin(-(x.n * y.d), x.d * (-y.n), np)
          [] y.k = "fin" -> Inf(Sign(x) * Sign(y), np)
          [] x.k = "fin" -> Val("fin", 0, 1, np)
          [] OTHER -> Special("nan", np)

a \oplus b == Add(a, b)
a \ominus b == Sub(a, b)
a \odot b == Mul(a, b)
a \oslash b == Div(a, b)

\* comparisons; any comparison with NaN is false
Ordered(x, y) == x.k \in {"fin", "pinf", "ninf"} /\ y.k \in {"fin", "pinf", "ninf"}
Lt(x, y) ==
    /\ Ordered(x, y)
    /\ CASE x.k = "fin" /\ y.k = "fin" -> x.n * y.d < y.n * x.d
         [] x.k = "ninf" -> y.k # "ninf"
         [] y.k = "pinf" -> x.k # "pinf"
         [] OTHER -> FALSE
Eq(x, y) == Ordered(x, y) /\ x.k = y.k /\ x.n = y.n /\ x.d = y.d
Le(x, y) == Lt(x, y) \/ Eq(x, y)
Ge(x, y) == Le(y, x)


\* ------------------------------------------------------------------------
\* Outcomes of a call
\* ------------------------------------------------------------------------

\* what a call of a formula ends in: a returned number (with the branch that
\* produced it), a raised ZeroDivisionError, or the implicit None of a
\* function body that matched neither branch
Return(v, branch) ==
    IF v.k = "zde" THEN [kind |-> "ZeroDivisionError", v |-> Zero, branch |-> branch]
    ELSE [kind |-> "value", v |-> v, branch |-> branch]

ReturnNone == [kind |-> "None", v |-> Zero, branch |-> "none"]

NotCalled == [kind |-> "pending", v |-> Zero, branch |-> "none"]

\* the two piecewise conditions shared by all formulas
\* (a variant that takes the first branch at p = p_Rx as well)
Lower_inclusive(p, p_Rx) == Le(Zero, p) /\ Le(p, p_Rx)

Lower(p, p_Rx) == Le(Zero, p) /\ Lt(p, p_Rx)
Upper(p, p_Rx) == Le(p_Rx, p) /\ Le(p, One)

\* if <lower>: return lo   elif <upper>: return up   (else fall off the end)
Piecewise(p, p_Rx, lo, up) ==
    IF Lower(p, p_Rx) THEN Return(lo, "lower")
    ELSE IF Upper(p, p_Rx) THEN Return(up, "upper")
    ELSE ReturnNone

\* b = lam * q_g - c_Rx
Benefit(lam, q_g, c_Rx) == (lam \odot q_g) \ominus c_Rx

\* p_Rx / (1 - p_Rx) applied to a numerator x:  x * p_Rx / (1 - p_Rx)
Odds(x, p_Rx) == (x \odot p_Rx) \oslash (One \ominus p_Rx)

\* ------------------------------------------------------------------------
\* utilities/inb_utils.py
\* ------------------------------------------------------------------------

INB_kappa(lam, c_Dx, h_Dx) == c_Dx \oplus (lam \odot h_Dx)

INB_lower(p, lam, q_g, c_Rx, c_Dx, h_Dx, Se, Sp, p_Rx) ==
    (Benefit(lam, q_g, c_Rx)
        \odot ((p \odot Se) \ominus Odds((One \ominus p) \odot (One \ominus Sp), p_Rx)))
    \ominus INB_kappa(lam, c_Dx, h_Dx)

INB_upper(p, lam, q_g, c_Rx, c_Dx, h_Dx, Se, Sp, p_Rx) ==
    (Benefit(lam, q_g, c_Rx)
        \odot ((Neg(p) \odot (One \ominus Se)) \oplus Odds((One \ominus p) \odot Sp, p_Rx)))
    \ominus INB_kappa(lam, c_Dx, h_Dx)

INB(p, lam, q_g, c_Rx, c_Dx, h_Dx, Se, Sp, p_Rx) ==
    Piecewise(p, p_Rx,
              INB_lower(p, lam, q_g, c_Rx, c_Dx, h_Dx, Se, Sp, p_Rx),
              INB_upper(p, lam, q_g, c_Rx, c_Dx, h_Dx, Se, Sp, p_Rx))

\* left-to-right products and complements, as Python evaluates a * b * c
Mul3(a, b, c) == (a \odot b) \odot c
Mul4(a, b, c, d) == ((a \odot b) \odot c) \odot d
Co(x) == One \ominus x

\* --- two tests, conjunctive ---------------------------------------------

INB_i_j_c_kappa(p, lam, c_Dx_i, c_Dx_j, h_Dx_i, h_Dx_j, Se_i, Sp_i) ==
    (c_Dx_i \oplus (lam \odot h_Dx_i))
    \oplus (((p \odot Se_i) \oplus (Co(p) \odot Co(Sp_i))) \odot (c_Dx_j \oplus (lam \odot h_Dx_j)))

\* (a variant that uses Sp_j where the false-positive rate 1 - Sp_j belongs)
INB_i_j_c_lower_Sp(p, lam, q_g, c_Rx, c_Dx_i, c_Dx_j, h_Dx_i, h_Dx_j, Se_i, Se_j, Sp_i, Sp_j, p_Rx) ==
    Neg(INB_i_j_c_kappa(p, lam, c_Dx_i, c_Dx_j, h_Dx_i, h_Dx_j, Se_i, Sp_i))
    \oplus (Benefit(lam, q_g, c_Rx)
            \odot (Mul3(p, Se_i, Se_j)
                   \ominus Odds(Mul3(Co(p), Co(Sp_i), Sp_j), p_Rx)))

INB_i_j_c_lower(p, lam, q_g, c_Rx, c_Dx_i, c_Dx_j, h_Dx_i, h_Dx_j, Se_i, Se_j, Sp_i, Sp_j, p_Rx) ==
    Neg(INB_i_j_c_kappa(p, lam, c_Dx_i, c_Dx_j, h_Dx_i, h_Dx_j, Se_i, Sp_i))
    \oplus (Benefit(lam, q_g, c_Rx)
            \odot (Mul3(p, Se_i, Se_j)
                   \ominus Odds(Mul3(Co(p), Co(Sp_i), Co(Sp_j)), p_Rx)))

INB_i_j_c_upper(p, lam, q_g, c_Rx, c_Dx_i, c_Dx_j, h_Dx_i, h_Dx_j, Se_i, Se_j, Sp_i, Sp_j, p_Rx) ==
    Neg(INB_i_j_c_kappa(p, lam, c_Dx_i, c_Dx_j, h_Dx_i, h_Dx_j, Se_i, Sp_i))
    \oplus (Benefit(lam, q_g, c_Rx)
            \odot ((Neg(p) \odot Co(Se_i \odot Se_j))
                   \oplus Odds(Co(p) \odot Co(Co(Sp_i) \odot Co(Sp_j)), p_Rx)))

INB_i_j_c(p, lam, q_g, c_Rx, c_Dx_i, c_Dx_j, h_Dx_i, h_Dx_j, Se_i, Se_j, Sp_i, Sp_j, p_Rx) ==
    Piecewise(p, p_Rx,
        INB_i_j_c_lower(p, lam, q_g, c_Rx, c_Dx_i, c_Dx_j, h_Dx_i, h_Dx_j, Se_i, Se_j, Sp_i, Sp_j, p_Rx),
        INB_i_j_c_upper(p, lam, q_g, c_Rx, c_Dx_i, c_Dx_j, h_Dx_i, h_Dx_j, Se_i, Se_j, Sp_i, Sp_j, p_Rx))

\* --- three tests, conjunctive -------------------------------------------

INB_i_j_k_c_kappa(p, lam, c_Dx_i, c_Dx_j, c_Dx_k, h_Dx_i, h_Dx_j, h_Dx_k, Se_i, Se_j, Sp_i, Sp_j) ==
    ((c_Dx_i \oplus (lam \odot h_Dx_i))
     \oplus (((p \odot Se_i) \oplus (Co(p) \odot Co(Sp_i))) \odot (c_Dx_j \oplus (lam \odot h_Dx_j))))
    \oplus ((Mul3(p, Se_i, Se_j) \oplus Mul3(Co(p), Co(Sp_i), Co(Sp_j)))
            \odot (c_Dx_k \oplus (lam \odot h_Dx_k)))

INB_i_j_k_c_lower(p, lam, q_g, c_Rx, c_Dx_i, c_Dx_j, c_Dx_k, h_Dx_i, h_Dx_j, h_Dx_k, Se_i, Se_j, Se_k, Sp_i, Sp_j, Sp_k, p_Rx) ==
    Neg(INB_i_j_k_c_kappa(p, lam, c_Dx_i, c_Dx_j, c_Dx_k, h_Dx_i, h_Dx_j, h_Dx_k, Se_i, Se_j, Sp_i, Sp_j))
    \oplus (Benefit(lam, q_g, c_Rx)
            \odot (Mul4(p, Se_i, Se_j, Se_k)
                   \ominus Odds(Mul4(Co(p), Co(Sp_i), Co(Sp_j), Co(Sp_k)), p_Rx)))

INB_i_j_k_c_upper(p, lam, q_g, c_Rx, c_Dx_i, c_Dx_j, c_Dx_k, h_Dx_i, h_Dx_j, h_Dx_k, Se_i, Se_j, Se_k, Sp_i, Sp_j, Sp_k, p_Rx) ==
    Neg(INB_i_j_k_c_kappa(p, lam, c_Dx_i, c_Dx_j, c_Dx_k, h_Dx_i, h_Dx_j, h_Dx_k, Se_i, Se_j, Sp_i, Sp_j))
    \oplus (Benefit(lam, q_g, c_Rx)
            \odot ((Neg(p) \odot Co(Mul3(Se_i, Se_j, Se_k)))
                   \oplus Odds(Co(p) \odot Co(Mul3(Co(Sp_i), Co(Sp_j), Co(Sp_k))), p_Rx)))

INB_i_j_k_c(p, lam, q_g, c_Rx, c_Dx_i, c_Dx_j, c_Dx_k, h_Dx_i, h_Dx_j, h_Dx_k, Se_i, Se_j, Se_k, Sp_i, Sp_j, Sp_k, p_Rx) ==
    Piecewise(p, p_Rx,
        INB_i_j_k_c_lower(p, lam, q_g, c_Rx, c_Dx_i, c_Dx_j, c_Dx_k, h_Dx_i, h_Dx_j, h_Dx_k, Se_i, Se_j, Se_k, Sp_i, Sp_j, Sp_k, p_Rx),
        INB_i_j_k_c_upper(p, lam, q_g, c_Rx, c_Dx_i, c_Dx_j, c_Dx_k, h_Dx_i, h_Dx_j, h_Dx_k, Se_i, Se_j, Se_k, Sp_i, Sp_j, Sp_k, p_Rx))

\* --- two tests, disjunctive ---------------------------------------------

\* (a variant that weights test j by a positive first test, as the
\* conjunctive formula does)
INB_i_j_d_kappa_conjunctive(p, lam, c_Dx_i, c_Dx_j, h_Dx_i, h_Dx_j, Se_i, Sp_i) ==
    INB_i_j_c_kappa(p, lam, c_Dx_i, c_Dx_j, h_Dx_i, h_Dx_j, Se_i, Sp_i)

INB_i_j_d_kappa(p, lam, c_Dx_i, c_Dx_j, h_Dx_i, h_Dx_j, Se_i, Sp_i) ==
    (c_Dx_i \oplus (lam \odot h_Dx_i))
    \oplus (((p \odot Co(Se_i)) \oplus (Co(p) \odot Sp_i)) \odot (c_Dx_j \oplus (lam \odot h_Dx_j)))

INB_i_j_d_lower(p, lam, q_g, c_Rx, c_Dx_i, c_Dx_j, h_Dx_i, h_Dx_j, Se_i, Se_j, Sp_i, Sp_j, p_Rx) ==
    Neg(INB_i_j_d_kappa(p, lam, c_Dx_i, c_Dx_j, h_Dx_i, h_Dx_j, Se_i, Sp_i))
    \oplus (Benefit(lam, q_g, c_Rx)
            \odot ((p \odot Co(Co(Se_i) \odot Co(Se_j)))
                   \ominus Odds(Co(p) \odot Co(Sp_i \odot Sp_j), p_Rx)))

INB_i_j_d_upper(p, lam, q_g, c_Rx, c_Dx_i, c_Dx_j, h_Dx_i, h_Dx_j, Se_i, Se_j, Sp_i, Sp_j, p_Rx) ==
    Neg(INB_i_j_d_kappa(p, lam, c_Dx_i, c_Dx_j, h_Dx_i, h_Dx_j, Se_i, Sp_i))
    \oplus (Benefit(lam, q_g, c_Rx)
            \odot (Mul3(Neg(p), Co(Se_i), Co(Se_j))
                   \oplus Odds(Mul3(Co(p), Sp_i, Sp_j), p_Rx)))

INB_i_j_d(p, lam, q_g, c_Rx, c_Dx_i, c_Dx_j, h_Dx_i, h_Dx_j, Se_i, Se_j, Sp_i, Sp_j, p_Rx) ==
    Piecewise(p, p_Rx,
        INB_i_j_d_lower(p, lam, q_g, c_Rx, c_Dx_i, c_Dx_j, h_Dx_i, h_Dx_j, Se_i, Se_j, Sp_i, Sp_j, p_Rx),
        INB_i_j_d_upper(p, lam, q_g, c_Rx, c_Dx_i, c_Dx_j, h_Dx_i, h_Dx_j, Se_i, Se_j, Sp_i, Sp_j, p_Rx))

\* --- three tests, disjunctive -------------------------------------------

\* (a variant that weights the later tests by positive earlier tests, as the
\* conjunctive formula does)
INB_i_j_k_d_kappa_conjunctive(p, lam, c_Dx_i, c_Dx_j, c_Dx_k, h_Dx_i, h_Dx_j, h_Dx_k, Se_i, Se_j, Sp_i, Sp_j) ==
    INB_i_j_k_c_kappa(p, lam, c_Dx_i, c_Dx_j, c_Dx_k, h_Dx_i, h_Dx_j, h_Dx_k, Se_i, Se_j, Sp_i, Sp_j)

INB_i_j_k_d_kappa(p, lam, c_Dx_i, c_Dx_j, c_Dx_k, h_Dx_i, h_Dx_j, h_Dx_k, Se_i, Se_j, Sp_i, Sp_j) ==
    ((c_Dx_i \oplus (lam \odot h_Dx_i))
     \oplus (((p \odot Co(Se_i)) \oplus (Co(p) \odot Sp_i)) \odot (c_Dx_j \oplus (lam \odot h_Dx_j))))
    \oplus ((Mul3(p, Co(Se_i), Co(Se_j)) \oplus Mul3(Co(p), Sp_i, Sp_j))
            \odot (c_Dx_k \oplus (lam \odot h_Dx_k)))

INB_i_j_k_d_lower(p, lam, q_g, c_Rx, c_Dx_i, c_Dx_j, c_Dx_k, h_Dx_i, h_Dx_j, h_Dx_k, Se_i, Se_j, Se_k, Sp_i, Sp_j, Sp_k, p_Rx) ==
    Neg(INB_i_j_k_d_kappa(p, lam, c_Dx_i, c_Dx_j, c_Dx_k, h_Dx_i, h_Dx_j, h_Dx_k, Se_i, Se_j, Sp_i, Sp_j))
    \oplus (Benefit(lam, q_g, c_Rx)
            \odot ((p \odot Co(Mul3(Co(Se_i), Co(Se_j), Co(Se_k))))
                   \ominus Odds(Co(p) \odot Co(Mul3(Sp_i, Sp_j, Sp_k)), p_Rx)))

INB_i_j_k_d_upper(p, lam, q_g, c_Rx, c_Dx_i, c_Dx_j, c_Dx_k, h_Dx_i, h_Dx_j, h_Dx_k, Se_i, Se_j, Se_k, Sp_i, Sp_j, Sp_k, p_Rx) ==
    Neg(INB_i_j_k_d_kappa(p, lam, c_Dx_i, c_Dx_j, c_Dx_k, h_Dx_i, h_Dx_j, h_Dx_k, Se_i, Se_j, Sp_i, Sp_j))
    \oplus (Benefit(lam, q_g, c_Rx)
            \odot (Mul4(Neg(p), Co(Se_i), Co(Se_j), Co(Se_k))
                   \oplus Odds(Mul4(Co(p), Sp_i, Sp_j, Sp_k), p_Rx)))

INB_i_j_k_d(p, lam, q_g, c_Rx, c_Dx_i, c_Dx_j, c_Dx_k, h_Dx_i, h_Dx_j, h_Dx_k, Se_i, Se_j, Se_k, Sp_i, Sp_j, Sp_k, p_Rx) ==
    Piecewise(p, p_Rx,
        INB_i_j_k_d_lower(p, lam, q_g, c_Rx, c_Dx_i, c_Dx_j, c_Dx_k, h_Dx_i, h_Dx_j, h_Dx_k, Se_i, Se_j, Se_k, Sp_i, Sp_j, Sp_k, p_Rx),
        INB_i_j_k_d_upper(p, lam, q_g, c_Rx, c_Dx_i, c_Dx_j, c_Dx_k, h_Dx_i, h_Dx_j, h_Dx_k, Se_i, Se_j, Se_k, Sp_i, Sp_j, Sp_k, p_Rx))

\* --- three tests, majority ----------------------------------------------

\* (a variant that adds the triple product instead of subtracting it)
Maj_plus(x_i, x_j, x_k) ==
    (((x_i \odot x_j) \oplus (x_i \odot x_k)) \oplus (x_j \odot x_k))
    \oplus Mul4(Two, x_i, x_j, x_k)

\* x_i*x_j + x_i*x_k + x_j*x_k - 2*x_i*x_j*x_k
Maj(x_i, x_j, x_k) ==
    (((x_i \odot x_j) \oplus (x_i \odot x_k)) \oplus (x_j \odot x_k))
    \ominus Mul4(Two, x_i, x_j, x_k)

\* 1 - x_i*x_j - x_i*x_k - x_j*x_k + 2*x_i*x_j*x_k
CoMaj(x_i, x_j, x_k) ==
    (((One \ominus (x_i \odot x_j)) \ominus (x_i \odot x_k)) \ominus (x_j \odot x_k))
    \oplus Mul4(Two, x_i, x_j, x_k)

INB_i_j_k_M_kappa(p, lam, c_Dx_i, c_Dx_j, c_Dx_k, h_Dx_i, h_Dx_j, h_Dx_k, Se_i, Se_j, Sp_i, Sp_j) ==
    (((c_Dx_i \oplus (lam \odot h_Dx_i)) \oplus c_Dx_j) \oplus (lam \odot h_Dx_j))
    \oplus ((((Mul3(p, Se_i, Co(Se_j)) \oplus Mul3(p, Co(Se_i), Se_j))
              \oplus Mul3(Co(p), Sp_i, Co(Sp_j))) \oplus Mul3(Co(p), Co(Sp_i), Sp_j))
            \odot (c_Dx_k \oplus (lam \odot h_Dx_k)))

INB_i_j_k_M_lower(p, lam, q_g, c_Rx, c_Dx_i, c_Dx_j, c_Dx_k, h_Dx_i, h_Dx_j, h_Dx_k, Se_i, Se_j, Se_k, Sp_i, Sp_j, Sp_k, p_Rx) ==
    Neg(INB_i_j_k_M_kappa(p, lam, c_Dx_i, c_Dx_j, c_Dx_k, h_Dx_i, h_Dx_j, h_Dx_k, Se_i, Se_j, Sp_i, Sp_j))
    \oplus (Benefit(lam, q_g, c_Rx)
            \odot ((p \odot Maj(Se_i, Se_j, Se_k))
                   \ominus Odds(Co(p) \odot CoMaj(Sp_i, Sp_j, Sp_k), p_Rx)))

INB_i_j_k_M_upper(p, lam, q_g, c_Rx, c_Dx_i, c_Dx_j, c_Dx_k, h_Dx_i, h_Dx_j, h_Dx_k, Se_i, Se_j, Se_k, Sp_i, Sp_j, Sp_k, p_Rx) ==
    Neg(INB_i_j_k_M_kappa(p, lam, c_Dx_i, c_Dx_j, c_Dx_k, h_Dx_i, h_Dx_j, h_Dx_k, Se_i, Se_j, Sp_i, Sp_j))
    \oplus (Benefit(lam, q_g, c_Rx)
            \odot ((Neg(p) \odot CoMaj(Se_i, Se_j, Se_k))
                   \oplus Odds(Co(p) \odot Maj(Sp_i, Sp_j, Sp_k), p_Rx)))

INB_i_j_k_M(p, lam, q_g, c_Rx, c_Dx_i, c_Dx_j, c_Dx_k, h_Dx_i, h_Dx_j, h_Dx_k, Se_i, Se_j, Se_k, Sp_i, Sp_j, Sp_k, p_Rx) ==
    Piecewise(p, p_Rx,
        INB_i_j_k_M_lower(p, lam, q_g, c_Rx, c_Dx_i, c_Dx_j, c_Dx_k, h_Dx_i, h_Dx_j, h_Dx_k, Se_i, Se_j, Se_k, Sp_i, Sp_j, Sp_k, p_Rx),
        INB_i_j_k_M_upper(p, lam, q_g, c_Rx, c_Dx_i, c_Dx_j, c_Dx_k, h_Dx_i, h_Dx_j, h_Dx_k, Se_i, Se_j, Se_k, Sp_i, Sp_j, Sp_k, p_Rx))

\* ------------------------------------------------------------------------
\* utilities/inb_d_b_utils.py (cost-normalized formulas)
\* ------------------------------------------------------------------------

\* the single-test piecewise form on an effective sensitivity Se, an
\* effective false-positive rate FP = 1 - Sp and an accumulated cost kappa
INB_d_b_form(p, kappa, Se, FP, p_Rx) ==
    Piecewise(p, p_Rx,
        ((p \odot Se) \ominus Odds(Co(p) \odot FP, p_Rx)) \ominus kappa,
        ((Neg(p) \odot Co(Se)) \oplus Odds(Co(p) \odot Co(FP), p_Rx)) \ominus kappa)

INB_d_b(p, c_Dx_d_b, Se, Sp, p_Rx) ==
    INB_d_b_form(p, c_Dx_d_b, Se, Co(Sp), p_Rx)

INB_d_b_i_j_c(p, c_i, c_j, Se_i, Se_j, Sp_i, Sp_j, p_Rx) ==
    INB_d_b_form(p,
        c_i \oplus (((p \odot Se_i) \oplus (Co(p) \odot Co(Sp_i))) \odot c_j),
        Se_i \odot Se_j,
        Co(Sp_i) \odot Co(Sp_j),
        p_Rx)

INB_d_b_i_j_d(p, c_i, c_j, Se_i, Se_j, Sp_i, Sp_j, p_Rx) ==
    INB_d_b_form(p,
        c_i \oplus (((p \odot Co(Se_i)) \oplus (Co(p) \odot Sp_i)) \odot c_j),
        Co(Co(Se_i) \odot Co(Se_j)),
        Co(Sp_i \odot Sp_j),
        p_Rx)

INB_d_b_i_j_k_c(p, c_i, c_j, c_k, Se_i, Se_j, Se_k, Sp_i, Sp_j, Sp_k, p_Rx) ==
    INB_d_b_form(p,
        (c_i \oplus (((p \odot Se_i) \oplus (Co(p) \odot Co(Sp_i))) \odot c_j))
            \oplus ((Mul3(p, Se_i, Se_j) \oplus Mul3(Co(p), Co(Sp_i), Co(Sp_j))) \odot c_k),
        Mul3(Se_i, Se_j, Se_k),
        Mul3(Co(Sp_i), Co(Sp_j), Co(Sp_k)),
        p_Rx)

INB_d_b_i_j_k_d(p, c_i, c_j, c_k, Se_i, Se_j, Se_k, Sp_i, Sp_j, Sp_k, p_Rx) ==
    INB_d_b_form(p,
        (c_i \oplus (((p \odot Co(Se_i)) \oplus (Co(p) \odot Sp_i)) \odot c_j))
            \oplus ((Mul3(p, Co(Se_i), Co(Se_j)) \oplus Mul3(Co(p), Sp_i, Sp_j)) \odot c_k),
        Co(Mul3(Co(Se_i), Co(Se_j), Co(Se_k))),
        Co(Mul3(Sp_i, Sp_j, Sp_k)),
        p_Rx)

INB_d_b_i_j_k_M(p, c_i, c_j, c_k, Se_i, Se_j, Se_k, Sp_i, Sp_j, Sp_k, p_Rx) ==
    INB_d_b_form(p,
        (c_i \oplus c_j)
            \oplus ((((p \odot ((Se_i \odot Co(Se_j)) \oplus (Co(Se_i) \odot Se_j))))
                     \oplus (Co(p) \odot ((Sp_i \odot Co(Sp_j)) \oplus (Co(Sp_i) \odot Sp_j))))
                    \odot c_k),
        Maj(Se_i, Se_j, Se_k),
        CoMaj(Sp_i, Sp_j, Sp_k),
        p_Rx)

\* ------------------------------------------------------------------------
\* Strategy labels and dispatch (INB_functions of page1 and page2)
\* ------------------------------------------------------------------------

Single == "INB (single)"
DualC == "INB (dual, conjunctive)"
DualD == "INB (dual, disjunctive)"
TripleC == "INB (triple, conjunctive)"
TripleD == "INB (triple, disjunctive)"
TripleM == "INB (triple, majority)"

Labels == {Single, DualC, DualD, TripleC, TripleD, TripleM}

\* page2: INB_functions[INB_type](p), the other parameters bound to a
INB_functions(label, p, a) ==
    CASE label = Single ->
            INB(p, a.lam, a.q_g, a.c_Rx, a.c_Dx_i, a.h_Dx_i, a.Se_i, a.Sp_i, a.p_Rx)
      [] label = DualC ->
            INB_i_j_c(p, a.lam, a.q_g, a.c_Rx, a.c_Dx_i, a.c_Dx_j, a.h_Dx_i, a.h_Dx_j,
                      a.Se_i, a.Se_j, a.Sp_i, a.Sp_j, a.p_Rx)
      [] label = DualD ->
            INB_i_j_d(p, a.lam, a.q_g, a.c_Rx, a.c_Dx_i, a.c_Dx_j, a.h_Dx_i, a.h_Dx_j,
                      a.Se_i, a.Se_j, a.Sp_i, a.Sp_j, a.p_Rx)
      [] label = TripleC ->
            INB_i_j_k_c(p, a.lam, a.q_g, a.c_Rx, a.c_Dx_i, a.c_Dx_j, a.c_Dx_k,
                        a.h_Dx_i, a.h_Dx_j, a.h_Dx_k,
                        a.Se_i, a.Se_j, a.Se_k, a.Sp_i, a.Sp_j, a.Sp_k, a.p_Rx)
      [] label = TripleD ->
            INB_i_j_k_d(p, a.lam, a.q_g, a.c_Rx, a.c_Dx_i, a.c_Dx_j, a.c_Dx_k,
                        a.h_Dx_i, a.h_Dx_j, a.h_Dx_k,
                        a.Se_i, a.Se_j, a.Se_k, a.Sp_i, a.Sp_j, a.Sp_k, a.p_Rx)
      [] label = TripleM ->
            INB_i_j_k_M(p, a.lam, a.q_g, a.c_Rx, a.c_Dx_i, a.c_Dx_j, a.c_Dx_k,
                        a.h_Dx_i, a.h_Dx_j, a.h_Dx_k,
                        a.Se_i, a.Se_j, a.Se_k, a.Sp_i, a.Sp_j, a.Sp_k, a.p_Rx)

\* page1: the same dispatch on the cost-normalized formulas, the cost-benefit
\* ratio of test t held in a.c_Dx_t
INB_d_b_functions(label, p, a) ==
    CASE label = Single ->
            INB_d_b(p, a.c_Dx_i, a.Se_i, a.Sp_i, a.p_Rx)
      [] label = DualC ->
            INB_d_b_i_j_c(p, a.c_Dx_i, a.c_Dx_j, a.Se_i, a.Se_j, a.Sp_i, a.Sp_j, a.p_Rx)
      [] label = DualD ->
            INB_d_b_i_j_d(p, a.c_Dx_i, a.c_Dx_j, a.Se_i, a.Se_j, a.Sp_i, a.Sp_j, a.p_Rx)
      [] label = TripleC ->
            INB_d_b_i_j_k_c(p, a.c_Dx_i, a.c_Dx_j, a.c_Dx_k,
                            a.Se_i, a.Se_j, a.Se_k, a.Sp_i, a.Sp_j, a.Sp_k, a.p_Rx)
      [] label = TripleD ->
            INB_d_b_i_j_k_d(p, a.c_Dx_i, a.c_Dx_j, a.c_Dx_k,
                            a.Se_i, a.Se_j, a.Se_k, a.Sp_i, a.Sp_j, a.Sp_k, a.p_Rx)
      [] label = TripleM ->
            INB_d_b_i_j_k_M(p, a.c_Dx_i, a.c_Dx_j, a.c_Dx_k,
                            a.Se_i, a.Se_j, a.Se_k, a.Sp_i, a.Sp_j, a.Sp_k, a.p_Rx)

\* ------------------------------------------------------------------------
\* State
\* ------------------------------------------------------------------------

VARIABLES
    fn,             \* the strategy label whose formula is called
    arg,            \* the parameters: p and the slider values
    ret,            \* outcome of the call of the inb_utils formula
    ret_d_b,        \* outcome of the call of the inb_d_b_utils formula
    last,           \* the parameter raised by the latest repeated call
    pc,             \* control position
    page,           \* "page1" or "page2"
    selected_INBs,  \* the multiselect's list of labels
    p_values,       \* np.linspace(p_min, p_max, N)
    y_all_values,   \* one list of raw values per strategy swept so far
    curves,         \* per strategy swept, the grid indices ax.plot was given
    y_max_values,   \* outcome of np.max(y_all_values, axis=0)
    hull_curve      \* the grid indices ax.plot was given for the hull

sweepVars == <<page, selected_INBs, p_values, y_all_values, curves, y_max_values, hull_curve>>
vars == <<fn, arg, ret, ret_d_b, last, pc, page, selected_INBs, p_values,
          y_all_values, curves, y_max_values, hull_curve>>

\* ------------------------------------------------------------------------
\* Input domains
\* ------------------------------------------------------------------------

\* slider positions i/GridDen in [0, 1]
Grid == {Rat(i, GridDen) : i \in 0..GridDen}

\* slider positions strictly between 0 and 1
Interior == {Rat(i, GridDen) : i \in 1..(GridDen - 1)}

\* p as a Python float or as a numpy float64, from one step below 0 to one
\* step above 1
PAny == {Fin(i, GridDen, np) : i \in (-1)..(GridDen + 1), np \in BOOLEAN}

\* p in [0, 1] as a numpy float64 (an element of p_values)
PGrid == {NpRat(i, GridDen) : i \in 0..GridDen}

Levels == {Zero, Rat(1, 2), One}
TwoLevels == {Rat(1, 4), One}

Params(P, PRx, Lam, QG, CRx, Ci, Cj, Ck, Hi, Hj, Hk, SeI, SeJ, SeK, SpI, SpJ, SpK) ==
    [p : P, p_Rx : PRx, lam : Lam, q_g : QG, c_Rx : CRx,
     c_Dx_i : Ci, c_Dx_j : Cj, c_Dx_k : Ck,
     h_Dx_i : Hi, h_Dx_j : Hj, h_Dx_k : Hk,
     Se_i : SeI, Se_j : SeJ, Se_k : SeK,
     Sp_i : SpI, Sp_j : SpJ, Sp_k : SpK]

NoSweep ==
    /\ page = "none"
    /\ selected_INBs = << >>
    /\ p_values = << >>
    /\ y_all_values = << >>
    /\ curves = << >>
    /\ y_max_values = [kind |-> "pending", v |-> << >>]
    /\ hull_curve = {}

InitCall(Fns, Args) ==
    /\ fn \in Fns
    /\ arg \in Args
    /\ ret = NotCalled
    /\ ret_d_b = NotCalled
    /\ last = "none"
    /\ pc = "ready"
    /\ NoSweep

\* any p, any threshold the slider offers (0 and 1 included), b in
\* {0, -1/2, 1, 1/2}
Init ==
    InitCall(Labels,
             Params(PAny, Grid, {Zero, One}, {One}, {Zero, Rat(1, 2)},
                    {Rat(1, 4)}, {Rat(1, 2)}, {Rat(1, 4)},
                    {Rat(1, 4)}, {Rat(1, 4)}, {Rat(1, 2)},
                    Levels, TwoLevels, {Rat(3, 4)},
                    Levels, {Zero, Rat(1, 4)}, {Rat(1, 2)}))

\* ------------------------------------------------------------------------
\* Calls of the formulas
\* ------------------------------------------------------------------------

\* INB_functions[INB_type](p) with the cost/harm-explicit formulas
Call ==
    /\ pc = "ready"
    /\ ret' = INB_functions(fn, arg.p, arg)
    /\ pc' = "done"
    /\ UNCHANGED <<fn, arg, ret_d_b, last>>
    /\ UNCHANGED sweepVars

\* INB_functions[INB_type](p) with the cost-normalized formulas
Call_d_b ==
    /\ pc = "done"
    /\ ret_d_b' = INB_d_b_functions(fn, arg.p, arg)
    /\ pc' = "both"
    /\ UNCHANGED <<fn, arg, ret, last>>
    /\ UNCHANGED sweepVars

Next == Call

Spec == Init /\ [][Next]_vars

\* ------------------------------------------------------------------------
\* Properties of a single call (specification Spec)
\* ------------------------------------------------------------------------

InUnit(x) == Le(Zero, x) /\ Le(x, One)
ValidThreshold(a) == Lt(Zero, a.p_Rx) /\ Lt(a.p_Rx, One)
Called == pc \in {"done", "both"}

\* the return expression of the first (if) branch of the formula of a label
LowerExpr(label, a) ==
    CASE label = Single ->
            INB_lower(a.p, a.lam, a.q_g, a.c_Rx, a.c_Dx_i, a.h_Dx_i, a.Se_i, a.Sp_i, a.p_Rx)
      [] label = DualC ->
            INB_i_j_c_lower(a.p, a.lam, a.q_g, a.c_Rx, a.c_Dx_i, a.c_Dx_j, a.h_Dx_i, a.h_Dx_j,
                            a.Se_i, a.Se_j, a.Sp_i, a.Sp_j, a.p_Rx)
      [] label = DualD ->
            INB_i_j_d_lower(a.p, a.lam, a.q_g, a.c_Rx, a.c_Dx_i, a.c_Dx_j, a.h_Dx_i, a.h_Dx_j,
                            a.Se_i, a.Se_j, a.Sp_i, a.Sp_j, a.p_Rx)
      [] label = TripleC ->
            INB_i_j_k_c_lower(a.p, a.lam, a.q_g, a.c_Rx, a.c_Dx_i, a.c_Dx_j, a.c_Dx_k,
                              a.h_Dx_i, a.h_Dx_j, a.h_Dx_k,
                              a.Se_i, a.Se_j, a.Se_k, a.Sp_i, a.Sp_j, a.Sp_k, a.p_Rx)
      [] label = TripleD ->
            INB_i_j_k_d_lower(a.p, a.lam, a.q_g, a.c_Rx, a.c_Dx_i, a.c_Dx_j, a.c_Dx_k,
                              a.h_Dx_i, a.h_Dx_j, a.h_Dx_k,
                              a.Se_i, a.Se_j, a.Se_k, a.Sp_i, a.Sp_j, a.Sp_k, a.p_Rx)
      [] label = TripleM ->
            INB_i_j_k_M_lower(a.p, a.lam, a.q_g, a.c_Rx, a.c_Dx_i, a.c_Dx_j, a.c_Dx_k,
                              a.h_Dx_i, a.h_Dx_j, a.h_Dx_k,
                              a.Se_i, a.Se_j, a.Se_k, a.Sp_i, a.Sp_j, a.Sp_k, a.p_Rx)

\* the return expression of the second (elif) branch
UpperExpr(label, a) ==
    CASE label = Single ->
            INB_upper(a.p, a.lam, a.q_g, a.c_Rx, a.c_Dx_i, a.h_Dx_i, a.Se_i, a.Sp_i, a.p_Rx)
      [] label = DualC ->
            INB_i_j_c_upper(a.p, a.lam, a.q_g, a.c_Rx, a.c_Dx_i, a.c_Dx_j, a.h_Dx_i, a.h_Dx_j,
                            a.Se_i, a.Se_j, a.Sp_i, a.Sp_j, a.p_Rx)
      [] label = DualD ->
            INB_i_j_d_upper(a.p, a.lam, a.q_g, a.c_Rx, a.c_Dx_i, a.c_Dx_j, a.h_Dx_i, a.h_Dx_j,
                            a.Se_i, a.Se_j, a.Sp_i, a.Sp_j, a.p_Rx)
      [] label = TripleC ->
            INB_i_j_k_c_upper(a.p, a.lam, a.q_g, a.c_Rx, a.c_Dx_i, a.c_Dx_j, a.c_Dx_k,
                              a.h_Dx_i, a.h_Dx_j, a.h_Dx_k,
                              a.Se_i, a.Se_j, a.Se_k, a.Sp_i, a.Sp_j, a.Sp_k, a.p_Rx)
      [] label = TripleD ->
            INB_i_j_k_d_upper(a.p, a.lam, a.q_g, a.c_Rx, a.c_Dx_i, a.c_Dx_j, a.c_Dx_k,
                              a.h_Dx_i, a.h_Dx_j, a.h_Dx_k,
                              a.Se_i, a.Se_j, a.Se_k, a.Sp_i, a.Sp_j, a.Sp_k, a.p_Rx)
      [] label = TripleM ->
            INB_i_j_k_M_upper(a.p, a.lam, a.q_g, a.c_Rx, a.c_Dx_i, a.c_Dx_j, a.c_Dx_k,
                              a.h_Dx_i, a.h_Dx_j, a.h_Dx_k,
                              a.Se_i, a.Se_j, a.Se_k, a.Sp_i, a.Sp_j, a.Sp_k, a.p_Rx)

\* C2: a call with p_Rx = 1 and p in [0, 1] ends in a raised error; it
\* returns neither a number (inf and NaN included) nor None.
C2_ThresholdOneRaises ==
    (Called /\ Eq(arg.p_Rx, One) /\ InUnit(arg.p)) => ret.kind = "ZeroDivisionError"

\* C3: a call with p outside [0, 1] and p_Rx in (0, 1) ends in a raised
\* error; it returns neither a number nor None.
C3_OutsideUnitRaises ==
    (Called /\ ~InUnit(arg.p) /\ ValidThreshold(arg)) => ret.kind \notin {"value", "None"}

\* C4: for p in [0, 1] and p_Rx in (0, 1) a call returns from exactly one
\* branch: the first branch's expression when p < p_Rx, the second branch's
\* expression when p >= p_Rx (p = p_Rx included).
C4_OneBranch ==
    (Called /\ InUnit(arg.p) /\ ValidThreshold(arg)) =>
        /\ ret.kind = "value"
        /\ Lt(arg.p, arg.p_Rx) =>
              ret.branch = "lower" /\ ret.v = LowerExpr(fn, arg)
        /\ Ge(arg.p, arg.p_Rx) =>
              ret.branch = "upper" /\ ret.v = UpperExpr(fn, arg)

C4_Witness ==
    /\ Called /\ ValidThreshold(arg) /\ Eq(arg.p, arg.p_Rx)
    /\ fn = TripleD /\ ret.kind = "value" /\ ret.branch = "upper"

\* C8: at p = p_Rx in (0, 1) the expressions of the two branches have the
\* same value, for each of the six formulas.
C8_BranchesMeet ==
    (ValidThreshold(arg) /\ Eq(arg.p, arg.p_Rx)) =>
        Eq(LowerExpr(fn, arg), UpperExpr(fn, arg))

C8_Witness ==
    /\ Called /\ ValidThreshold(arg) /\ Eq(arg.p, arg.p_Rx)
    /\ fn = TripleM /\ ret.kind = "value"
    /\ ~Eq(arg.Se_i, arg.Sp_i) /\ ~Eq(Benefit(arg.lam, arg.q_g, arg.c_Rx), Zero)

\* ------------------------------------------------------------------------
\* Reduction of the cost/harm-explicit formulas to the cost-normalized ones
\* (specification SpecReduce)
\* ------------------------------------------------------------------------

\* q_g = 1, c_Rx = 0 and no harm; lam is 0 or 1
InitReduce ==
    InitCall(Labels,
             Params(PGrid, Interior, {Zero, One}, {One}, {Zero},
                    {Rat(1, 4)}, {Zero, Rat(1, 2)}, {Rat(1, 4)},
                    {Zero}, {Zero}, {Zero},
                    TwoLevels, TwoLevels, TwoLevels,
                    TwoLevels, TwoLevels, TwoLevels))

NextReduce == Call \/ Call_d_b

SpecReduce == InitReduce /\ [][NextReduce]_vars

NoHarm(a) == Eq(a.h_Dx_i, Zero) /\ Eq(a.h_Dx_j, Zero) /\ Eq(a.h_Dx_k, Zero)

SameOutcome(x, y) == x.kind = "value" /\ y.kind = "value" /\ Eq(x.v, y.v)

\* C1 as stated: with lam = 0, q_g = 1, c_Rx = 0 and no harm, each formula of
\* inb_utils returns the value of the cost-normalized formula with
\* c_Dx_t_d_b = c_Dx_t.
C1_ReductionAtLamZero ==
    (pc = "both" /\ Eq(arg.lam, Zero) /\ Eq(arg.q_g, One) /\ Eq(arg.c_Rx, Zero)
        /\ NoHarm(arg) /\ InUnit(arg.p) /\ ValidThreshold(arg))
    => SameOutcome(ret, ret_d_b)

\* C1 amended: the reduction holds with lam = 1 (so that b = lam*q_g - c_Rx
\* = 1), q_g = 1, c_Rx = 0 and no harm.
C1_ReductionAtUnitBenefit ==
    (pc = "both" /\ Eq(arg.lam, One) /\ Eq(arg.q_g, One) /\ Eq(arg.c_Rx, Zero)
        /\ NoHarm(arg) /\ InUnit(arg.p) /\ ValidThreshold(arg))
    => SameOutcome(ret, ret_d_b)

C1_Witness ==
    /\ pc = "both" /\ fn = TripleM /\ Eq(arg.lam, One) /\ NoHarm(arg)
    /\ Lt(arg.p, arg.p_Rx) /\ ~Eq(arg.c_Dx_j, Zero)
    /\ SameOutcome(ret, ret_d_b) /\ Lt(ret.v, Neg(arg.c_Dx_i \oplus arg.c_Dx_j))

\* ------------------------------------------------------------------------
\* Repeated calls with one sensitivity or specificity raised
\* (specification SpecMono)
\* ------------------------------------------------------------------------

Accuracies == {"Se_i", "Se_j", "Se_k", "Sp_i", "Sp_j", "Sp_k"}

\* b is 1/2 or -1/2; the parameters of tests a strategy does not administer
\* stay at one position
MonoParams(Cj, Ck, SeJ, SeK, SpJ, SpK) ==
    Params(PGrid, Interior, {One}, {Rat(1, 2)}, {Zero, One},
           {Rat(1, 4)}, Cj, Ck,
           {Zero}, {Zero}, {Zero},
           TwoLevels, SeJ, SeK,
           TwoLevels, SpJ, SpK)

InitMono ==
    \/ InitCall({Single},
                MonoParams({Zero}, {Zero}, {One}, {One}, {One}, {One}))
    \/ InitCall({DualC, DualD},
                MonoParams({Zero, One}, {Zero}, TwoLevels, {One}, TwoLevels, {One}))
    \/ InitCall({TripleC, TripleD, TripleM},
                MonoParams({Zero, One}, {Zero, Rat(1, 2)},
                           TwoLevels, TwoLevels, TwoLevels, TwoLevels))

\* the sensitivities and specificities a strategy's formula takes
AccuraciesOf(label) ==
    CASE label = Single -> {"Se_i", "Sp_i"}
      [] label \in {DualC, DualD} -> {"Se_i", "Sp_i", "Se_j", "Sp_j"}
      [] OTHER -> Accuracies

\* the same formula called again after one slider Se_t or Sp_t was moved up
Raise ==
    /\ pc = "done"
    /\ \E t \in AccuraciesOf(fn), v \in TwoLevels :
          /\ Lt(arg[t], v)
          /\ arg' = [arg EXCEPT ![t] = v]
          /\ last' = t
    /\ ret' = INB_functions(fn, arg'.p, arg')
    /\ UNCHANGED <<fn, ret_d_b, pc>>
    /\ UNCHANGED sweepVars

NextMono == Call \/ Raise

SpecMono == InitMono /\ [][NextMono]_vars

UnitCost(a, t) ==
    CASE t = "i" -> a.c_Dx_i \oplus (a.lam \odot a.h_Dx_i)
      [] t = "j" -> a.c_Dx_j \oplus (a.lam \odot a.h_Dx_j)
      [] t = "k" -> a.c_Dx_k \oplus (a.lam \odot a.h_Dx_k)

\* the tests a strategy administers after the test of an accuracy parameter
LaterTests(label, t) ==
    CASE label = Single -> {}
      [] label \in {DualC, DualD} -> IF t \in {"Se_i", "Sp_i"} THEN {"j"} ELSE {}
      [] OTHER -> IF t \in {"Se_i", "Sp_i"} THEN {"j", "k"}
                  ELSE IF t \in {"Se_j", "Sp_j"} THEN {"k"} ELSE {}

\* C5 as stated: raising any Se_t or Sp_t never decreases the returned INB.
C5_Monotone ==
    [][(pc = "done" /\ pc' = "done") => Ge(ret'.v, ret.v)]_vars

\* C5 amended: with b = lam*q_g - c_Rx >= 0, raising Se_t or Sp_t never
\* decreases the INB when every test administered after t has unit cost
\* c_Dx + lam*h_Dx = 0 (always so for the last test of the strategy).
C5_MonotoneWhenLaterTestsFree ==
    [][(/\ pc = "done" /\ pc' = "done"
        /\ Ge(Benefit(arg.lam, arg.q_g, arg.c_Rx), Zero)
        /\ \A t \in LaterTests(fn, last') : Eq(UnitCost(arg, t), Zero))
       => Ge(ret'.v, ret.v)]_vars

C5_Witness ==
    /\ pc = "done" /\ last = "Se_k" /\ fn = TripleM
    /\ Lt(Zero, Benefit(arg.lam, arg.q_g, arg.c_Rx))
    /\ Lt(Zero, arg.p) /\ Lt(arg.p, arg.p_Rx)
    /\ ret.kind = "value"

\* ------------------------------------------------------------------------
\* A costless uninformative last test (specification SpecLast)
\* ------------------------------------------------------------------------

\* tests j and k range over always-positive (Se 1, Sp 0) and always-negative
\* (Se 0, Sp 1) settings, with and without a cost
InitLast ==
    InitCall({DualC, DualD, TripleC, TripleD},
             Params(PGrid, Interior, {One}, {One}, {Zero, Rat(1, 2)},
                    {Rat(1, 4)}, {Zero, Rat(1, 4)}, {Zero, Rat(1, 4)},
                    {Rat(1, 4)}, {Zero}, {Zero, Rat(1, 4)},
                    TwoLevels, Levels, {Zero, One},
                    TwoLevels, Levels, {Zero, One}))

SpecLast == InitLast /\ [][Next]_vars

AlwaysPositive(Se, Sp) == Eq(Se, One) /\ Eq(Sp, Zero)
AlwaysNegative(Se, Sp) == Eq(Se, Zero) /\ Eq(Sp, One)
Costless(c_Dx, h_Dx) == Eq(c_Dx, Zero) /\ Eq(h_Dx, Zero)

SingleOf(a) ==
    INB(a.p, a.lam, a.q_g, a.c_Rx, a.c_Dx_i, a.h_Dx_i, a.Se_i, a.Sp_i, a.p_Rx)

\* C10: a costless last test that is always positive leaves the conjunctive
\* INB at the INB of the strategy without it, and a costless last test that
\* is always negative leaves the disjunctive INB at the INB of the strategy
\* without it (three tests against two, two tests against one).
C10_UninformativeLastTest ==
    (Called /\ InUnit(arg.p) /\ ValidThreshold(arg)) =>
        /\ (fn = TripleC /\ Costless(arg.c_Dx_k, arg.h_Dx_k)
                /\ AlwaysPositive(arg.Se_k, arg.Sp_k))
              => SameOutcome(ret, INB_functions(DualC, arg.p, arg))
        /\ (fn = TripleD /\ Costless(arg.c_Dx_k, arg.h_Dx_k)
                /\ AlwaysNegative(arg.Se_k, arg.Sp_k))
              => SameOutcome(ret, INB_functions(DualD, arg.p, arg))
        /\ (fn = DualC /\ Costless(arg.c_Dx_j, arg.h_Dx_j)
                /\ AlwaysPositive(arg.Se_j, arg.Sp_j))
              => SameOutcome(ret, SingleOf(arg))
        /\ (fn = DualD /\ Costless(arg.c_Dx_j, arg.h_Dx_j)
                /\ AlwaysNegative(arg.Se_j, arg.Sp_j))
              => SameOutcome(ret, SingleOf(arg))

C10_Witness ==
    /\ Called /\ fn = TripleD /\ ret.kind = "value"
    /\ Costless(arg.c_Dx_k, arg.h_Dx_k) /\ AlwaysNegative(arg.Se_k, arg.Sp_k)
    /\ ~Eq(arg.c_Dx_j, Zero) /\ Eq(arg.Se_j, Rat(1, 2))
    /\ Lt(Zero, arg.p) /\ Lt(arg.p, arg.p_Rx)

\* ------------------------------------------------------------------------
\* The sweep and the hull of page1 and page2 (specification SpecSweep)
\* ------------------------------------------------------------------------

AsNp(x) == [x EXCEPT !.np = TRUE]

\* np.linspace(p_min, p_max, N): p_min + k * (p_max - p_min) / (N - 1)
Linspace(p_min, p_max, N) ==
    [k \in 1..N |->
        AsNp(p_min \oplus (Rat(k - 1, 1) \odot ((p_max \ominus p_min) \oslash Rat(N - 1, 1))))]

\* the lists the multiselect can return: distinct labels, in any order
Selections ==
    {sel \in UNION {[1..n -> Labels] : n \in 0..MaxSel} :
        \A x, y \in DOMAIN sel : x # y => sel[x] # sel[y]}

\* the lambda a page binds to a label
PageFunction(pg, label, p, a) ==
    IF pg = "page1" THEN INB_d_b_functions(label, p, a)
    ELSE INB_functions(label, p, a)

\* [INB_functions[INB_type](p) for p in p_values]
Evaluate(pg, label, grid, a) ==
    [idx \in 1..Len(grid) |-> PageFunction(pg, label, grid[idx], a).v]

\* (a variant that keeps strictly positive values only)
MaskPositive(y) == {idx \in 1..Len(y) : Lt(Zero, y[idx])}

\* the boolean mask y >= 0 as the set of grid indices it keeps
Mask(y) == {idx \in 1..Len(y) : Ge(y[idx], Zero)}

\* numpy's maximum of two elements: NaN wins over everything
Maximum(x, y) ==
    IF x.k = "nan" THEN x ELSE IF y.k = "nan" THEN y ELSE IF Lt(x, y) THEN y ELSE x

\* (a variant that keeps the last strategy's value only)
LastRowOnly(rows, idx, n) == rows[n][idx]

RECURSIVE ColumnMax(_, _, _)
ColumnMax(rows, idx, n) ==
    IF n = 1 THEN rows[1][idx]
    ELSE Maximum(ColumnMax(rows, idx, n - 1), rows[n][idx])

\* (a variant that answers an empty hull for an empty list)
EmptyMaxIsEmpty(rows) ==
    IF rows = << >> THEN [kind |-> "ok", v |-> << >>]
    ELSE [kind |-> "ok", v |-> [idx \in 1..Len(rows[1]) |-> ColumnMax(rows, idx, Len(rows))]]

\* np.max(y_all_values, axis=0): a zero-size array has no maximum
NpMax(rows) ==
    IF rows = << >> THEN [kind |-> "ValueError", v |-> << >>]
    ELSE [kind |-> "ok", v |-> [idx \in 1..Len(rows[1]) |-> ColumnMax(rows, idx, Len(rows))]]

InitSweep ==
    /\ page \in {"page1", "page2"}
    /\ selected_INBs \in Selections
    /\ \E ends \in {<<Zero, One>>, <<Rat(1, GridDen), One>>, <<One, Zero>>} :
          p_values = Linspace(ends[1], ends[2], GridN)
    /\ arg \in Params({Zero}, Interior, {One}, {One}, {Zero},
                      {Zero, Rat(1, 4)}, {Rat(1, 4)}, {Zero},
                      {Zero}, {Zero}, {Zero},
                      {One}, {Rat(3, 4)}, {Rat(1, 2)},
                      {Rat(3, 4)}, {Rat(1, 4)}, {One})
    /\ fn = "none"
    /\ ret = NotCalled
    /\ ret_d_b = NotCalled
    /\ last = "none"
    /\ pc = "sweep"
    /\ y_all_values = << >>
    /\ curves = << >>
    /\ y_max_values = [kind |-> "pending", v |-> << >>]
    /\ hull_curve = {}

\* one pass of "for INB_type in selected_INBs" (every label the multiselect
\* offers is a key of INB_functions)
SweepStrategy ==
    /\ pc = "sweep"
    /\ Len(y_all_values) < Len(selected_INBs)
    /\ LET INB_type == selected_INBs[Len(y_all_values) + 1]
           y_values == Evaluate(page, INB_type, p_values, arg)
       IN  /\ fn' = INB_type
           /\ y_all_values' = Append(y_all_values, y_values)
           /\ curves' = Append(curves, Mask(y_values))
    /\ UNCHANGED <<arg, ret, ret_d_b, last, pc, page, selected_INBs, p_values,
                   y_max_values, hull_curve>>

\* y_max_values = np.max(y_all_values, axis=0); an exception ends the page
ComputeHull ==
    /\ pc = "sweep"
    /\ Len(y_all_values) = Len(selected_INBs)
    /\ y_max_values' = NpMax(y_all_values)
    /\ pc' = IF y_max_values'.kind = "ok" THEN "hull" ELSE "error"
    /\ UNCHANGED <<fn, arg, ret, ret_d_b, last, page, selected_INBs, p_values,
                   y_all_values, curves, hull_curve>>

\* ax.plot(p_values[y_max_values >= 0], y_max_values[y_max_values >= 0], ...)
PlotHull ==
    /\ pc = "hull"
    /\ hull_curve' = Mask(y_max_values.v)
    /\ pc' = "plotted"
    /\ UNCHANGED <<fn, arg, ret, ret_d_b, last, page, selected_INBs, p_values,
                   y_all_values, curves, y_max_values>>

NextSweep == SweepStrategy \/ ComputeHull \/ PlotHull

SpecSweep == InitSweep /\ [][NextSweep]_vars

HullDone == pc \in {"hull", "plotted"}

\* x is the largest of the values of column idx
IsColumnMax(x, rows, idx) ==
    /\ \A s \in 1..Len(rows) : Le(rows[s][idx], x)
    /\ \E s \in 1..Len(rows) : Eq(rows[s][idx], x)

C7_EmptySelectionFails ==
    selected_INBs = << >> =>
        /\ y_max_values.kind # "ok"
        /\ hull_curve = {}
        /\ pc \in {"sweep", "error"}
        /\ pc = "error" <=> y_max_values.kind = "ValueError"

C7_Witness ==
    selected_INBs = << >> /\ pc = "error" /\ y_max_values.kind = "ValueError"

=============================================================================
